---- MODULE Spec2Model ----
(***************************************************************************)
(* State-machine model of pycomm3.base.Base, the EtherNet/IP + CIP session *)
(* core (src/pycomm3/base.py).                                             *)
(*                                                                         *)
(* One Base object is modelled.  Its fields are the variables below; every *)
(* public method is one action that runs the whole method, nested calls    *)
(* included.  Methods are written as operators over a record `s` holding   *)
(* the object's fields, and return [st, ret, exc]: the fields afterwards,  *)
(* the returned value and the exception raised ("none" when it returns).   *)
(* What the socket and the target do in a call is an input of the action.  *)
(***************************************************************************)
EXTENDS Integers, Sequences, FiniteSets, TLC

(***************************************************************************)
(* Bounds                                                                  *)
(***************************************************************************)
\* session handles the target may put into a RegisterSession reply: 0..MaxHandle
MaxHandle == 2
\* connection ids the target may put into a Forward Open reply: 0..MaxCid
MaxCid == 1

\* Python's None, kept apart from every handle and connection id.
\* As in Python, None # 0 holds, None = 0 does not, and None is falsy.
None == -1

Handles == 0..MaxHandle
Cids == 0..MaxCid

VARIABLES
    sock,                 \* self.__sock: "None", or the state of the Socket it refers to
                          \*   ("unconnected", "connected", "closed")
    session,              \* self._session
    connection_opened,    \* self._connection_opened (the `connected` property)
    target_cid,           \* self._target_cid
    target_is_connected,  \* self._target_is_connected (cip_connected)
    direct_connections,   \* self.__direct_connections, fixed at construction
    status,               \* self._status
    registered,           \* history: a RegisterSession reply was accepted and neither
                          \*   un_register_session nor clean_up has completed since
    scope,                \* "in" while the object is the subject of a with-statement body
    last,                 \* history: the last call, its inputs, outcome and transport events
    sequence,             \* Base._sequence, the class attribute shared by every session
    pid,                  \* what getpid() returns in this process
    calls,                \* history: the last use of the sequence counter
    tpc,                  \* per thread: its position inside _get_sequence
    treg,                 \* per thread: the value it loaded for `Base._sequence += 1`
    tret,                 \* per thread: the value its call returned
    inp,                  \* the arguments of a static helper
    out                   \* what the helper did with them

\* the fields of the session object
objectVars == <<sock, session, connection_opened, target_cid, target_is_connected,
                direct_connections, status, registered, scope, last>>
\* the process-wide sequence counter
sequenceVars == <<sequence, pid, calls>>
\* the threads inside _get_sequence
threadVars == <<tpc, treg, tret>>
\* a call of a static helper
helperVars == <<inp, out>>

vars == <<sock, session, connection_opened, target_cid, target_is_connected,
          direct_connections, status, registered, scope, last,
          sequence, pid, calls, tpc, treg, tret, inp, out>>

(***************************************************************************)
(* Values                                                                  *)
(***************************************************************************)
\* self._status holds either a (group, message) tuple or a bare string
Tuple(group, msg) == <<group, msg>>
Str(msg) == <<msg>>

\* What the transport and the target do during one request/reply exchange:
\*   send   - Socket.send completes           (FALSE: it raises)
\*   recv   - Socket.receive returns a reply  (FALSE: it raises)
\*   check  - what the subclass's _check_reply does with the reply
\*   handle - bytes [4:8] of the reply, cid - bytes [44:48] of the reply
Quiet == [send |-> TRUE, recv |-> TRUE, check |-> "True", handle |-> 0, cid |-> 0]
\* exchanges that fail, or whose reply is not accepted
Faults ==
    {[Quiet EXCEPT !.send = FALSE], [Quiet EXCEPT !.recv = FALSE]}
    \cup {[Quiet EXCEPT !.check = c] : c \in {"False", "raise"}}
\* ... for a request whose reply is not looked into
Exchanges == Faults \cup {Quiet}
\* ... for RegisterSession, whose reply carries the handle
RegisterExchanges == Faults \cup {[Quiet EXCEPT !.handle = h] : h \in Handles}
\* ... for Forward Open, whose reply carries the connection id
ForwardOpenExchanges == Faults \cup {[Quiet EXCEPT !.cid = c] : c \in Cids}
\* ... for a message that is sent without waiting for a reply
Sends == {Quiet, [Quiet EXCEPT !.send = FALSE]}

\* the exchange goes through and the target hands out a usable handle
Cooperating(x) == x.send /\ x.recv /\ x.check = "True" /\ x.handle # 0

(***************************************************************************)
(* The object's fields as one record, and results of calls                 *)
(***************************************************************************)
Self ==
    [sock |-> sock, session |-> session, connection_opened |-> connection_opened,
     target_cid |-> target_cid, target_is_connected |-> target_is_connected,
     direct_connections |-> direct_connections, status |-> status, registered |-> registered, ev |-> <<>>]

Return(s, v) == [st |-> s, ret |-> v, exc |-> "none"]
Raise(s, e) == [st |-> s, ret |-> "None", exc |-> e]

\* evaluate v, then go on with F(v)
With(v, F(_)) == CHOOSE y \in {F(h) : h \in {v}} : TRUE
\* run the call r; an exception it raised propagates, otherwise go on with F(r)
Then(r, F(_)) == CHOOSE y \in {IF h.exc # "none" THEN h ELSE F(h) : h \in {r}} : TRUE

\* transport events of the running call: kind is "connect", "send", "receive",
\* "check" or "close"; message is what a send carries; result is "ok" or "fail",
\* and for a check what _check_reply did
NoMessage == <<>>
Event(kind, message, result) == [kind |-> kind, message |-> message, result |-> result]
\* a send event also keeps the session handle the object holds when it sends
Sent(s, message, result) ==
    [kind |-> "send", message |-> message, result |-> result, session |-> s.session]
Log(s, e) == [s EXCEPT !.ev = Append(@, e)]
IO(ok) == IF ok THEN "ok" ELSE "fail"

\* Base.__init__
Init ==
    /\ sock = "None"
    /\ session = 0
    /\ connection_opened = FALSE
    /\ target_cid = None
    /\ target_is_connected = FALSE
    /\ direct_connections = FALSE
    /\ status = Tuple(0, "")
    /\ registered = FALSE
    /\ scope = "out"
    /\ last = [op |-> "__init__", ret |-> "None", exc |-> "none", ev |-> <<>>,
               pre |-> [cip |-> FALSE, registered |-> FALSE, connected |-> FALSE,
                        session |-> 0, target_cid |-> None],
               coop |-> FALSE, afterFailedOpen |-> FALSE]

(***************************************************************************)
(* Transport                                                               *)
(***************************************************************************)
\* a header that leaves the session field at 0
build_header_without_session(s, command, length) ==
    IF s.session = None
    THEN Raise(s, "CommError")
    ELSE Return(s, [command |-> command, length |-> length, session |-> 0,
                    status |-> 0, context |-> "_pycomm_", option |-> 0])
\* Base.build_header: packing self._session fails when it is None, and every
\* failure is re-raised as CommError.  The header is kept as the fields it carries.
build_header(s, command, length) ==
    IF s.session = None
    THEN Raise(s, "CommError")
    ELSE Return(s, [command |-> command, length |-> length, session |-> s.session,
                    status |-> 0, context |-> "_pycomm_", option |-> 0])

\* Base._send: with no socket the attribute access fails; a socket that is not
\* connected, or a failing send, raises.  All become CommError.
_send(s, message, x) ==
    IF s.sock = "None"
    THEN Raise(s, "CommError")
    ELSE IF s.sock = "connected" /\ x.send
         THEN Return(Log(s, Sent(s, message, "ok")), "None")
         ELSE Raise(Log(s, Sent(s, message, "fail")), "CommError")

\* Base._receive
_receive(s, x) ==
    IF s.sock = "None"
    THEN Raise(s, "CommError")
    ELSE IF s.sock = "connected" /\ x.recv
         THEN Return(Log(s, Event("receive", NoMessage, "ok")),
                     [handle |-> x.handle, cid |-> x.cid])
         ELSE Raise(Log(s, Event("receive", NoMessage, "fail")), "CommError")

\* Base._check_reply is abstract in Base; a subclass's implementation accepts the
\* reply, rejects it, or raises.
_check_reply(s, reply, x) ==
    CASE x.check = "True" -> Return(Log(s, Event("check", NoMessage, "True")), TRUE)
      [] x.check = "False" -> Return(Log(s, Event("check", NoMessage, "False")), FALSE)
      [] OTHER -> Raise(Log(s, Event("check", NoMessage, "raise")), "DataError")

\* build_header, message += data, _send, _receive, _check_reply: the common body
\* of send_rr_data, send_unit_data and of the exchange inside register_session
\* and list_identity.  `data` is what follows the header, [name, size]; `length`
\* is the value the caller passes to build_header.
\* Returns the reply and whether the check accepted it.
Exchange(s, command, length, data, x) ==
    Then(build_header(s, command, length), LAMBDA h :
    Then(_send(h.st, [header |-> h.ret, data |-> data], x), LAMBDA a :
    Then(_receive(a.st, x), LAMBDA b :
    Then(_check_reply(b.st, b.ret, x), LAMBDA c :
    Return(c.st, [reply |-> b.ret, accepted |-> c.ret])))))

(***************************************************************************)
(* Integers and bytes.  A Python int has no width; the model keeps one as  *)
(* two limbs, value = hi * 2^16 + lo with 0 <= lo < 2^16, so that indices  *)
(* beyond 32 bits can be written down.  A bytes object is a sequence of    *)
(* 0..255, a str a sequence of code points.                                *)
(***************************************************************************)
Num(hi, lo) == [hi |-> hi, lo |-> lo]
Small(n) == Num(n \div 2^16, n % 2^16)
Le(v, w) == v.hi < w.hi \/ (v.hi = w.hi /\ v.lo <= w.lo)
\* v * 10 + d
Times10Plus(v, d) ==
    With(v.lo * 10 + d, LAMBDA t : Num(v.hi * 10 + (t \div 2^16), t % 2^16))
\* v // 10 and v % 10
DivMod10(v) ==
    With((v.hi % 10) * 2^16 + v.lo,
         LAMBDA t : [q |-> Num(v.hi \div 10, t \div 10), r |-> t % 10])

\* two bytes, least significant first
LittleEndian2(n) == <<n % 256, n \div 256>>

\* bytes_.pack_usint, pack_uint, pack_dint: unsigned 8 and 16 bits, signed 32 bits;
\* a value that does not fit the width is refused
pack_usint(v) ==
    IF v.hi = 0 /\ v.lo <= 255 THEN Return(<<>>, <<v.lo>>) ELSE Raise(<<>>, "struct.error")
pack_uint(v) ==
    IF v.hi = 0 THEN Return(<<>>, LittleEndian2(v.lo)) ELSE Raise(<<>>, "struct.error")
pack_dint(v) ==
    IF v.hi < 2^15
    THEN Return(<<>>, LittleEndian2(v.lo) \o LittleEndian2(v.hi))
    ELSE Raise(<<>>, "struct.error")

(***************************************************************************)
(* Message sizes                                                           *)
(***************************************************************************)
RECURSIVE Sum(_)
Sum(sizes) == IF sizes = <<>> THEN 0 ELSE Head(sizes) + Sum(Tail(sizes))

\* Base.build_common_packet_format without address data: interface handle (4),
\* timeout (2), item count (2), address type (2), address length (2),
\* data type (2), data length (2), then the message
build_common_packet_format(message) ==
    [name |-> message.name, size |-> Sum(<<4, 2, 2, 2, 2, 2, 2>>) + message.size]

\* the byte strings joined into forward_open_msg (standard Forward Open)
forward_open_msg(direct) ==
    [name |-> "forward_open",
     size |-> Sum(<<1, 1, 1, 1, 1, 1, 1, 1, 4, 4, 2, 2, 4, 1, 3, 4, 2, 4, 2, 1>>)
              + (IF direct THEN 3 ELSE 1)
              + Sum(<<1, 1, 2, 1, 1>>)]

\* the byte strings joined into forward_close_msg; the slice assignment inserts
\* the route at position 11
forward_close_msg(direct) ==
    [name |-> "forward_close",
     size |-> Sum(<<1, 1, 1, 1, 1, 1, 1, 1, 2, 2, 4>>)
              + (IF direct THEN 2 ELSE 4)
              + Sum(<<1, 1, 1, 1>>)]

\* messages a caller may hand to send_rr_data / send_unit_data
UserMessages == {[name |-> "user", size |-> n] : n \in {0, 6}}

(***************************************************************************)
(* Encapsulation commands                                                  *)
(***************************************************************************)
\* Base.nop
nop(s, x) ==
    Then(build_header(s, "nop", 0), LAMBDA h :
    _send(h.st, [header |-> h.ret, data |-> [name |-> "", size |-> 0]], x))

\* Base.list_identity; `decodes` is whether reply[63:-1] decodes
list_identity(s, x, decodes) ==
    Then(Exchange(s, "list_identity", 0, [name |-> "", size |-> 0], x), LAMBDA e :
    IF e.ret.accepted
    THEN IF decodes THEN Return(e.st, "identity") ELSE Raise(e.st, "DataError")
    ELSE Return(e.st, "False"))

\* Base.send_rr_data; returns the reply, or None when the check rejects it
send_rr_data(s, message, x) ==
    Then(Exchange(s, "send_rr_data", message.size, message, x), LAMBDA e :
    IF e.ret.accepted THEN Return(e.st, [none |-> FALSE, reply |-> e.ret.reply])
                      ELSE Return(e.st, [none |-> TRUE]))

\* Base.send_unit_data; returns the reply, or None when the check rejects it
send_unit_data(s, message, x) ==
    Then(Exchange(s, "send_unit_data", message.size, message, x), LAMBDA e :
    IF e.ret.accepted THEN Return(e.st, [none |-> FALSE, reply |-> e.ret.reply])
                      ELSE Return(e.st, [none |-> TRUE]))

\* Base.clear
clear(s) == Return([s EXCEPT !.status = Tuple(0, "")], "None")

(***************************************************************************)
(* Session                                                                 *)
(***************************************************************************)
\* a registration that is carried out whether or not a handle is held
register_session_again(s, x) ==
    Then(Exchange([s EXCEPT !.session = 0], "register_session", 4,
                  [name |-> "protocol version", size |-> 2 + 2], x), LAMBDA e :
    IF e.ret.accepted
    THEN Return([e.st EXCEPT !.session = e.ret.reply.handle, !.registered = TRUE],
                e.ret.reply.handle)
    ELSE Return([e.st EXCEPT !.status =
                     Str("Warning ! the session has not been registered.")],
                None))
\* Base.register_session; returns the handle, or None when the reply is rejected
register_session(s, x) ==
    IF s.session \notin {0, None}
    THEN Return(s, s.session)
    ELSE Then(Exchange([s EXCEPT !.session = 0], "register_session", 4,
                       [name |-> "protocol version", size |-> 2 + 2], x), LAMBDA e :
         IF e.ret.accepted
         THEN Return([e.st EXCEPT !.session = e.ret.reply.handle, !.registered = TRUE],
                     e.ret.reply.handle)
         ELSE Return([e.st EXCEPT !.status =
                          Str("Warning ! the session has not been registered.")],
                     None))

\* Base.un_register_session
un_register_session(s, x) ==
    Then(build_header(s, "unregister_session", 0), LAMBDA h :
    Then(_send(h.st, [header |-> h.ret, data |-> [name |-> "", size |-> 0]], x), LAMBDA a :
    Return([a.st EXCEPT !.session = None, !.registered = FALSE], "None")))

\* Base.forward_open
forward_open(s, x) ==
    IF s.session = 0
    THEN Raise([s EXCEPT !.status =
                    Tuple(4, "A session need to be registered before to call forward_open.")],
               "CommError")
    ELSE Then(send_rr_data(s, build_common_packet_format(
                                  forward_open_msg(s.direct_connections)), x), LAMBDA r :
         IF ~r.ret.none
         THEN Return([r.st EXCEPT !.target_cid = r.ret.reply.cid,
                                  !.target_is_connected = TRUE], "True")
         ELSE Return([r.st EXCEPT !.status = Tuple(4, "forward_open returned False")],
                     "False"))

\* Base.forward_close
forward_close(s, x) ==
    IF s.session = 0
    THEN Raise([s EXCEPT !.status =
                    Tuple(5, "A session need to be registered before to call forward_close.")],
               "CommError")
    ELSE Then(send_rr_data(s, build_common_packet_format(
                                  forward_close_msg(s.direct_connections)), x), LAMBDA r :
         IF ~r.ret.none
         THEN Return([r.st EXCEPT !.target_is_connected = FALSE], "True")
         ELSE Return([r.st EXCEPT !.status = Tuple(5, "forward_close returned False")],
                     "False"))

(***************************************************************************)
(* Module identity                                                         *)
(***************************************************************************)
\* the byte strings joined into msg of get_module_info: an Unconnected Send
\* that wraps Get Attributes All of the Identity Object, routed to the slot
get_module_info_msg ==
    [name |-> "get_module_info",
     size |-> Sum(<<1, 1, 1, 1, 1, 1, 1, 3, 1, 1, 1, 1, 1, 1, 2, 1, 1>>)]

\* Base._parse_identity_object: the fields are read at fixed offsets, and a
\* reply too short for them, or a name that does not decode, raises
_parse_identity_object(s, parses) ==
    IF parses THEN Return(s, "info") ELSE Raise(s, "IndexError")

\* the try block of Base.get_module_info
get_module_info_try(s, slot, xfo, x, parses) ==
    Then(IF ~s.target_is_connected
         THEN Then(forward_open(s, xfo), LAMBDA f :
              IF f.ret = "False"
              THEN Raise([f.st EXCEPT !.status =
                              Tuple(10, "Target did not connected. get_plc_name will not be executed.")],
                         "DataError")
              ELSE Return(f.st, "None"))
         ELSE Return(s, "None"), LAMBDA c :
    With(pack_usint(Small(slot)), LAMBDA p :
    IF p.exc # "none" THEN Raise(c.st, p.exc) ELSE
    Then(send_rr_data(c.st, build_common_packet_format(get_module_info_msg), x), LAMBDA r :
    IF ~r.ret.none
    THEN _parse_identity_object(r.st, parses)
    ELSE Raise(r.st, "DataError"))))

\* the call without its except clause
get_module_info_uncaught(s, slot, xfo, x, parses) ==
    get_module_info_try(s, slot, xfo, x, parses)
\* Base.get_module_info; every exception inside is re-raised as DataError
get_module_info(s, slot, xfo, x, parses) ==
    With(get_module_info_try(s, slot, xfo, x, parses), LAMBDA r :
    IF r.exc # "none" THEN Raise(r.st, "DataError") ELSE r)

(***************************************************************************)
(* Socket life cycle                                                       *)
(***************************************************************************)
\* what Socket() and Socket.connect do in open()
Connects == {"ok", "socket_fail", "connect_fail"}

\* clean_up, had it forgotten the session handle
clean_up_keeps_session(s) ==
    [s EXCEPT !.sock = "None", !.target_is_connected = FALSE,
              !.connection_opened = FALSE]

\* Base.clean_up
clean_up(s) ==
    [s EXCEPT !.sock = "None", !.target_is_connected = FALSE, !.session = 0,
              !.connection_opened = FALSE, !.registered = FALSE]

\* the socket part of Base.open: create the Socket if there is none, and connect
connect(s, c) ==
    IF s.sock = "None" /\ c = "socket_fail"
    THEN Raise(s, "OSError")
    ELSE IF c = "ok" /\ s.sock \in {"None", "unconnected"}
         THEN Return(Log([s EXCEPT !.sock = "connected"],
                         Event("connect", NoMessage, "ok")), "None")
         ELSE Raise(Log([s EXCEPT !.sock = IF @ = "None" THEN "unconnected" ELSE @],
                        Event("connect", NoMessage, "fail")), "OSError")

\* the try block of Base.open
open_try(s, c, x) ==
    Then(connect(s, c), LAMBDA a :
    Then(register_session([a.st EXCEPT !.connection_opened = TRUE], x), LAMBDA r :
    IF r.ret = None
    THEN Return([r.st EXCEPT !.status = Tuple(13, "Session not registered")], "False")
    ELSE Return(r.st, "True")))

\* Base.open; every exception inside is re-raised as CommError
open(s, c, x) ==
    IF s.connection_opened
    THEN Return(s, "None")
    ELSE With(open_try(s, c, x), LAMBDA r :
         IF r.exc # "none" THEN Raise(r.st, "CommError") ELSE r)

\* the first try block, had it un-registered without looking at the handle
close_session_always_unregisters(s, xfc, xun) ==
    Then(IF s.target_is_connected THEN forward_close(s, xfc) ELSE Return(s, "None"),
         LAMBDA a : un_register_session(a.st, xun))

\* first try block of Base.close: forward_close, then un_register_session;
\* an exception in either leaves the block and is collected
close_session(s, xfc, xun) ==
    Then(IF s.target_is_connected THEN forward_close(s, xfc) ELSE Return(s, "None"),
         LAMBDA a :
         IF a.st.session # 0 THEN un_register_session(a.st, xun) ELSE Return(a.st, "None"))

\* second try block of Base.close: close the socket if there is one
close_sock(s, closes) ==
    IF s.sock # "None"
    THEN IF closes
         THEN Return(Log([s EXCEPT !.sock = "closed"], Event("close", NoMessage, "ok")),
                     "None")
         ELSE Raise(Log(s, Event("close", NoMessage, "fail")), "OSError")
    ELSE Return(s, "None")

\* Base.close
close(s, xfc, xun, closes) ==
    With(close_session(s, xfc, xun), LAMBDA a :
    With(close_sock(a.st, closes), LAMBDA b :
    With((IF a.exc # "none" THEN <<a.exc>> ELSE <<>>)
         \o (IF b.exc # "none" THEN <<b.exc>> ELSE <<>>), LAMBDA errs :
    IF errs # <<>> THEN Raise(clean_up(b.st), "CommError")
                   ELSE Return(clean_up(b.st), "None"))))

\* Base.__enter__
enter(s, c, x) ==
    Then(open(s, c, x), LAMBDA r : Return(r.st, "self"))

\* Base.__exit__; exc_type is whether the body raised
exit(s, exc_type, xfc, xun, closes) ==
    With(close(s, xfc, xun, closes), LAMBDA r :
    IF r.exc = "CommError" THEN Return(r.st, "False")
    ELSE IF ~exc_type THEN Return(r.st, "True") ELSE Return(r.st, "False"))

(***************************************************************************)
(* Actions: one per call of a public method                                *)
(***************************************************************************)
Pre ==
    [cip |-> target_is_connected, registered |-> registered,
     connected |-> connection_opened, session |-> session, target_cid |-> target_cid]

\* the last call was an open() that raised or returned False
FailedOpen == last.op = "open" /\ (last.exc # "none" \/ last.ret = "False")

\* the fields after the call, and the record of the call
Commit(op, r, ret, coop) ==
    /\ sock' = r.st.sock
    /\ session' = r.st.session
    /\ connection_opened' = r.st.connection_opened
    /\ target_cid' = r.st.target_cid
    /\ target_is_connected' = r.st.target_is_connected
    /\ direct_connections' = r.st.direct_connections
    /\ status' = r.st.status
    /\ registered' = r.st.registered
    /\ last' = [op |-> op, ret |-> IF r.exc # "none" THEN "None" ELSE ret,
                exc |-> r.exc, ev |-> r.st.ev, pre |-> Pre, coop |-> coop,
                afterFailedOpen |-> FailedOpen]
    /\ UNCHANGED <<sequenceVars, threadVars, helperVars>>

Open ==
    \E c \in Connects, x \in RegisterExchanges :
        \E r \in {open(Self, c, x)} :
            /\ Commit("open", r, r.ret, c = "ok" /\ Cooperating(x))
            /\ UNCHANGED scope

Close ==
    \E xfc \in Exchanges, xun \in Sends, closes \in BOOLEAN :
        \E r \in {close(Self, xfc, xun, closes)} :
            /\ Commit("close", r, "None", FALSE)
            /\ UNCHANGED scope

RegisterSession ==
    \E x \in RegisterExchanges :
        \E r \in {register_session(Self, x)} :
            /\ Commit("register_session", r, r.ret, FALSE)
            /\ UNCHANGED scope

UnRegisterSession ==
    \E x \in Sends :
        \E r \in {un_register_session(Self, x)} :
            /\ Commit("un_register_session", r, "None", FALSE)
            /\ UNCHANGED scope

ForwardOpen ==
    \E x \in ForwardOpenExchanges :
        \E r \in {forward_open(Self, x)} :
            /\ Commit("forward_open", r, r.ret, FALSE)
            /\ UNCHANGED scope

ForwardClose ==
    \E x \in Exchanges :
        \E r \in {forward_close(Self, x)} :
            /\ Commit("forward_close", r, r.ret, FALSE)
            /\ UNCHANGED scope

Nop ==
    \E x \in Sends :
        \E r \in {nop(Self, x)} :
            /\ Commit("nop", r, "None", FALSE)
            /\ UNCHANGED scope

ListIdentity ==
    \E x \in Exchanges, decodes \in BOOLEAN :
        \E r \in {list_identity(Self, x, decodes)} :
            /\ Commit("list_identity", r, r.ret, FALSE)
            /\ UNCHANGED scope

SendRRData ==
    \E m \in UserMessages, x \in Exchanges :
        \E r \in {send_rr_data(Self, m, x)} :
            /\ Commit("send_rr_data", r,
                      IF r.exc = "none" /\ ~r.ret.none THEN "reply" ELSE "None", FALSE)
            /\ UNCHANGED scope

SendUnitData ==
    \E m \in UserMessages, x \in Exchanges :
        \E r \in {send_unit_data(Self, m, x)} :
            /\ Commit("send_unit_data", r,
                      IF r.exc = "none" /\ ~r.ret.none THEN "reply" ELSE "None", FALSE)
            /\ UNCHANGED scope

Clear ==
    \E r \in {clear(Self)} :
        /\ Commit("clear", r, "None", FALSE)
        /\ UNCHANGED scope

\* `with obj:` reaches the body only if __enter__ returns; when it raises,
\* the statement is left without __exit__ being called
Enter ==
    /\ scope = "out"
    /\ \E c \in Connects, x \in RegisterExchanges :
        \E r \in {enter(Self, c, x)} :
            /\ Commit("__enter__", r, "self", c = "ok" /\ Cooperating(x))
            /\ scope' = IF r.exc = "none" THEN "in" ELSE "out"

\* the body of the with-statement ends, normally or by an exception
Exit ==
    /\ scope = "in"
    /\ \E exc_type \in BOOLEAN, xfc \in Exchanges, xun \in Sends, closes \in BOOLEAN :
        \E r \in {exit(Self, exc_type, xfc, xun, closes)} :
            /\ Commit("__exit__", r, r.ret, FALSE)
            /\ scope' = "out"

\* slots asked for: one that fits a byte and one that does not
Slots == {1, 256}

\* the Forward Open exchange matters only while no CIP connection is held, and
\* whether the reply can be parsed only when a reply is accepted
GetModuleInfo ==
    \E slot \in Slots, x \in Exchanges :
        \E xfo \in IF target_is_connected THEN {Quiet} ELSE ForwardOpenExchanges,
           parses \in IF x = Quiet THEN BOOLEAN ELSE {FALSE} :
            \E r \in {get_module_info(Self, slot, xfo, x, parses)} :
                /\ Commit("get_module_info", r, r.ret, FALSE)
                /\ UNCHANGED scope

Next ==
    \/ Open
    \/ Close
    \/ RegisterSession
    \/ UnRegisterSession
    \/ ForwardOpen
    \/ ForwardClose
    \/ Nop
    \/ ListIdentity
    \/ SendRRData
    \/ SendUnitData
    \/ Clear
    \/ GetModuleInfo
    \/ Enter
    \/ Exit

\* what a specification leaves alone: the counter, the threads, the helpers, the object
SequenceIdle == sequence = 0 /\ pid = 1 /\ calls = <<>>
ThreadsIdle == tpc = <<>> /\ treg = <<>> /\ tret = <<>>
HelpersIdle == inp = <<>> /\ out = <<>>
ObjectIdle == Init

\* one session object, just constructed; nothing else is followed
InitSession == Init /\ SequenceIdle /\ ThreadsIdle /\ HelpersIdle

Spec == InitSession /\ [][Next]_vars

(***************************************************************************)
(* Reading the record of the last call                                     *)
(***************************************************************************)
Events == {last.ev[i] : i \in 1..Len(last.ev)}
IsSend(e, command) == e.kind = "send" /\ e.message.header.command = command
IsForwardClose(e) == e.kind = "send" /\ e.message.data.name = "forward_close"
IsUnRegister(e) == IsSend(e, "unregister_session")
\* a send or receive error, or a reply that the check did not accept
IsFault(e) ==
    \/ e.kind \in {"send", "receive"} /\ e.result = "fail"
    \/ e.kind = "check" /\ e.result \in {"False", "raise"}
\* a send or receive error, or a check that raised
IsError(e) ==
    \/ e.kind \in {"send", "receive"} /\ e.result = "fail"
    \/ e.kind = "check" /\ e.result = "raise"
Disconnected == ~connection_opened /\ session = 0 /\ ~target_is_connected

(***************************************************************************)
(* Claims                                                                  *)
(***************************************************************************)

\* C1: once close() has finished, whether it returned or raised CommError and
\* whatever Forward Close, UnRegisterSession and the socket close did, connected
\* is false, the session handle is 0, cip_connected is false and the socket
\* reference is dropped.
C1_CloseResets ==
    last.op = "close" =>
        /\ ~connection_opened
        /\ session = 0
        /\ ~target_is_connected
        /\ sock = "None"

\* close() raised CommError after Forward Close failed on a CIP-connected,
\* registered session
C1_Witness ==
    /\ last.op = "close"
    /\ last.exc = "CommError"
    /\ last.pre.cip /\ last.pre.registered
    /\ \E e \in Events : IsForwardClose(e) /\ e.result = "fail"

\* C2: whenever open() returns True, connected is true and the session handle
\* is non-zero, for every RegisterSession reply that the reply check accepts.
C2_OpenTrueRegistered ==
    (last.op = "open" /\ last.exc = "none" /\ last.ret = "True") =>
        (connection_opened /\ session # 0)

\* C3: in every reachable state the session handle differs from 0 exactly when
\* the session is registered; in particular un_register_session leaves it at 0.
C3_HandleIffRegistered ==
    /\ (session # 0) <=> registered
    /\ (last.op = "un_register_session" /\ last.exc = "none") => session = 0

\* C4: in every reachable state, cip_connected implies that target_cid has been
\* set from a Forward Open reply and that the session is registered with a
\* non-zero handle.
C4_CipImpliesRegistered ==
    target_is_connected =>
        (target_cid # None /\ registered /\ session \notin {0, None})

\* C5: forward_open() called while the session is not registered fails with
\* CommError and status group 4, sends nothing, and leaves cip_connected and
\* target_cid unchanged.
C5_ForwardOpenNeedsSession ==
    (last.op = "forward_open" /\ ~last.pre.registered) =>
        /\ last.exc = "CommError"
        /\ Len(status) = 2 /\ status[1] = 4
        /\ \A e \in Events : e.kind # "send"
        /\ target_is_connected = last.pre.cip
        /\ target_cid = last.pre.target_cid

\* C6: in close(), when Forward Close fails with an error on a registered
\* session, UnRegisterSession is still sent and the socket is still closed.
C6_CloseStepsIndependent ==
    (/\ last.op = "close"
     /\ last.pre.cip /\ last.pre.registered
     /\ \E e \in Events : IsForwardClose(e)
     /\ \E e \in Events : IsError(e)) =>
        /\ \E e \in Events : IsUnRegister(e)
        /\ \E e \in Events : e.kind = "close"

\* C7: within one close() the Forward Close request (sent only if cip_connected
\* at entry) precedes the UnRegisterSession message (sent only if the session is
\* registered at entry), which precedes the socket close; nothing is sent after
\* the socket close.
C7_CloseOrder ==
    last.op = "close" =>
        \A i \in 1..Len(last.ev) :
            /\ IsForwardClose(last.ev[i]) => last.pre.cip
            /\ IsUnRegister(last.ev[i]) => last.pre.registered
            /\ \A j \in 1..Len(last.ev) :
                /\ (IsForwardClose(last.ev[i]) /\ IsUnRegister(last.ev[j])) => i < j
                /\ (last.ev[i].kind = "send" /\ last.ev[j].kind = "close") => i < j

\* a close() that sent Forward Close, then UnRegisterSession, then closed the socket
C7_Witness ==
    /\ last.op = "close"
    /\ \E i, j, k \in 1..Len(last.ev) :
        /\ i < j /\ j < k
        /\ IsForwardClose(last.ev[i])
        /\ IsUnRegister(last.ev[j])
        /\ last.ev[k].kind = "close"

\* C8: after open() has failed, a following open() against a cooperating target
\* re-attempts what did not complete and ends with connected true and the
\* session registered.
C8_RetryAfterFailedOpen ==
    (last.op = "open" /\ last.afterFailedOpen /\ last.coop) =>
        (connection_opened /\ registered /\ session \notin {0, None})

\* C9: whenever a transport fault or an invalid reply occurs inside nop,
\* list_identity, register_session, forward_open, send_rr_data or
\* send_unit_data, the session is DISCONNECTED when the operation ends.
C9_FaultDisconnects ==
    (/\ last.op \in {"nop", "list_identity", "register_session", "forward_open",
                     "send_rr_data", "send_unit_data"}
     /\ \E e \in Events : IsFault(e)) =>
        Disconnected

\* C10: when the session is used as a scoped context, the socket is released on
\* every way out of the scope: after __exit__ (body completed or raised), and
\* when open() fails on entry after the TCP connection was made.
C10_ScopeReleasesSocket ==
    (\/ last.op = "__exit__"
     \/ /\ last.op = "__enter__" /\ last.exc # "none"
        /\ \E e \in Events : e.kind = "connect" /\ e.result = "ok") =>
        sock = "None"

(***************************************************************************)
(* The process-wide sequence counter: Base._sequence, Base.__init__ and    *)
(* Base._get_sequence.  The counter belongs to the class, so every session *)
(* of the process shares it.                                               *)
(***************************************************************************)
\* the value _get_sequence counts up to before it starts again
SequenceLimit == 65535

\* process identifiers: one below the limit, the limit itself, one that does not
\* fit 16 bits, and a larger multiple of the limit
Pids == {65000, SequenceLimit, SequenceLimit + 1, 2 * SequenceLimit}

\* Base._get_sequence: the new value of the counter, which is also what it returns
_get_sequence(seq, p) ==
    IF seq < SequenceLimit THEN seq + 1 ELSE p % SequenceLimit

\* the part of Base.__init__ that touches the counter; `called` says whether it
\* went through _get_sequence
__init__(seq, p) ==
    IF seq = 0
    THEN [sequence |-> p, called |-> FALSE]
    ELSE [sequence |-> _get_sequence(seq, p), called |-> TRUE]

\* the class has just been loaded: Base._sequence = 0 and no session exists
InitSequence ==
    /\ sequence = 0
    /\ pid \in Pids
    /\ calls = [op |-> "import", called |-> FALSE, before |-> 0, ret |-> None,
                prev |-> None, first |-> FALSE, constructed |-> FALSE]
    /\ ObjectIdle /\ ThreadsIdle /\ HelpersIdle

\* one more session is constructed
Construct ==
    \E r \in {__init__(sequence, pid)} :
        /\ sequence' = r.sequence
        /\ calls' = [op |-> "__init__", called |-> r.called, before |-> sequence,
                     ret |-> IF r.called THEN r.sequence ELSE calls.ret,
                     prev |-> IF r.called THEN calls.ret ELSE calls.prev,
                     first |-> ~calls.constructed, constructed |-> TRUE]
        /\ UNCHANGED <<pid, objectVars, threadVars, helperVars>>

\* a session asks for the next sequence number
GetSequence ==
    /\ calls.constructed
    /\ \E r \in {_get_sequence(sequence, pid)} :
        /\ sequence' = r
        /\ calls' = [op |-> "_get_sequence", called |-> TRUE, before |-> sequence,
                     ret |-> r, prev |-> calls.ret,
                     first |-> FALSE, constructed |-> TRUE]
        /\ UNCHANGED <<pid, objectVars, threadVars, helperVars>>

NextSequence == Construct \/ GetSequence

SeqSpec == InitSequence /\ [][NextSequence]_vars

\* C11: of two consecutive _get_sequence calls (those made by constructing a
\* session included) the later returns one more than the earlier, except when
\* the counter stood at 65535 and the call returns pid mod 65535.
C11_SequenceSteps ==
    calls.called /\ calls.prev # None =>
        \/ calls.ret = calls.prev + 1
        \/ calls.before = SequenceLimit /\ calls.ret = pid % SequenceLimit

\* C12: the counter is a 16-bit value in every state, and right after the first
\* session is constructed it is the process identifier truncated into 16 bits.
C12_SequenceIs16Bit ==
    /\ sequence \in 0..(2^16 - 1)
    /\ calls.op = "__init__" /\ calls.first => sequence = pid % 2^16

(***************************************************************************)
(* Two threads inside Base._get_sequence.  The method takes no lock, so    *)
(* the interpreter may switch threads between any two of its steps: the    *)
(* test of line 134, the read and the write of `Base._sequence += 1`, the  *)
(* assignment of line 137 and the read of `return Base._sequence`.         *)
(***************************************************************************)
\* the counter starts at 1..MaxStart, or one below the limit
MaxStart == 6
Threads == {1, 2}
Starts == (1..MaxStart) \cup {SequenceLimit - 1}

InitThreads ==
    /\ sequence \in Starts
    /\ pid \in Pids
    /\ calls = [op |-> "threads", before |-> sequence]
    /\ tpc = [t \in Threads |-> "test"]
    /\ treg = [t \in Threads |-> None]
    /\ tret = [t \in Threads |-> None]
    /\ ObjectIdle /\ HelpersIdle

\* line 134: if Base._sequence < 65535
Test(t) ==
    /\ tpc[t] = "test"
    /\ tpc' = [tpc EXCEPT ![t] = IF sequence < SequenceLimit THEN "load" ELSE "wrap"]
    /\ UNCHANGED <<sequence, treg, tret, pid, calls, objectVars, helperVars>>

\* line 135, first half: the value of Base._sequence is read
Load(t) ==
    /\ tpc[t] = "load"
    /\ treg' = [treg EXCEPT ![t] = sequence]
    /\ tpc' = [tpc EXCEPT ![t] = "store"]
    /\ UNCHANGED <<sequence, tret, pid, calls, objectVars, helperVars>>

\* line 135, second half: the value read, plus one, is written back
Store(t) ==
    /\ tpc[t] = "store"
    /\ sequence' = treg[t] + 1
    /\ tpc' = [tpc EXCEPT ![t] = "return"]
    /\ UNCHANGED <<treg, tret, pid, calls, objectVars, helperVars>>

\* line 137: Base._sequence = getpid() % 65535
Wrap(t) ==
    /\ tpc[t] = "wrap"
    /\ sequence' = pid % SequenceLimit
    /\ tpc' = [tpc EXCEPT ![t] = "return"]
    /\ UNCHANGED <<treg, tret, pid, calls, objectVars, helperVars>>

\* line 139: return Base._sequence
ReturnSequence(t) ==
    /\ tpc[t] = "return"
    /\ tret' = [tret EXCEPT ![t] = sequence]
    /\ tpc' = [tpc EXCEPT ![t] = "done"]
    /\ UNCHANGED <<sequence, treg, pid, calls, objectVars, helperVars>>

NextThreads ==
    \/ \E t \in Threads : Test(t)
    \/ \E t \in Threads : Load(t)
    \/ \E t \in Threads : Store(t)
    \/ \E t \in Threads : Wrap(t)
    \/ \E t \in Threads : ReturnSequence(t)

ThreadSpec == InitThreads /\ [][NextThreads]_vars

\* C13: when two threads have both called _get_sequence away from the limit,
\* they hold different values and the counter has advanced by exactly two.
C13_NoLostUpdate ==
    (\A t \in Threads : tpc[t] = "done") /\ calls.before < SequenceLimit - 2 =>
        /\ tret[1] # tret[2]
        /\ sequence = calls.before + 2

(***************************************************************************)
(* str and bytes methods                                                   *)
(***************************************************************************)
\* str.encode(): UTF-8, for code points below 0x800
RECURSIVE encode(_)
encode(str) ==
    IF str = <<>> THEN <<>>
    ELSE (IF Head(str) < 128 THEN <<Head(str)>>
          ELSE <<192 + (Head(str) \div 64), 128 + (Head(str) % 64)>>) \o encode(Tail(str))

\* bytes.find(c): the 0-based position of the first c, -1 when there is none
RECURSIVE find(_, _)
find(b, c) ==
    IF b = <<>> THEN -1
    ELSE IF Head(b) = c THEN 0
    ELSE With(find(Tail(b), c), LAMBDA k : IF k = -1 THEN -1 ELSE k + 1)

\* the slices b[:n] and b[n:]; a negative n counts from the end
SliceTo(b, n) ==
    IF n >= 0 THEN SubSeq(b, 1, IF n < Len(b) THEN n ELSE Len(b))
    ELSE SubSeq(b, 1, Len(b) + n)
SliceFrom(b, n) ==
    IF n >= 0 THEN SubSeq(b, n + 1, Len(b))
    ELSE SubSeq(b, (IF Len(b) + n > 0 THEN Len(b) + n ELSE 0) + 1, Len(b))

\* bytes.split(sep) for a one-byte separator
RECURSIVE split(_, _)
split(b, sep) ==
    With(find(b, sep),
         LAMBDA k : IF k = -1 THEN <<b>>
                    ELSE <<SliceTo(b, k)>> \o split(SliceFrom(b, k + 1), sep))

\* b''.join(chunks)
RECURSIVE join(_)
join(chunks) == IF chunks = <<>> THEN <<>> ELSE Head(chunks) \o join(Tail(chunks))

\* int(b) for a bytes object of decimal digits; anything else is a ValueError
IsDigit(c) == 48 <= c /\ c <= 57
RECURSIVE IntOf(_, _)
IntOf(b, acc) ==
    IF b = <<>> THEN acc ELSE IntOf(Tail(b), Times10Plus(acc, Head(b) - 48))
int(b) ==
    IF b = <<>> \/ \E i \in 1..Len(b) : ~IsDigit(b[i])
    THEN Raise(<<>>, "ValueError")
    ELSE Return(<<>>, IntOf(b, Num(0, 0)))

(***************************************************************************)
(* Base.create_tag_rp.  rp is the list the method appends to; an entry is  *)
(* a bytes object of one or more bytes.  The result is [exc, none, path]:  *)
(* the exception raised, whether None was returned, the returned bytes.    *)
(***************************************************************************)
\* const.EXTENDED_SYMBOL, const.PADDING_BYTE, const.ELEMENT_ID
EXTENDED_SYMBOL == <<145>>
PADDING_BYTE == <<0>>
ELEMENT_ID(width) ==
    CASE width = "8-bit" -> <<40>>
      [] width = "16-bit" -> <<41>>
      [] width = "32-bit" -> <<42>>

\* the symbolic segment without its pad byte
append_symbol_unpadded(rp, tag) ==
    IF Len(tag) > 255 THEN Raise(rp, "ValueError")
    ELSE Return(rp \o <<EXTENDED_SYMBOL, <<Len(tag)>>>>
                   \o [i \in 1..Len(tag) |-> <<tag[i]>>], "")
\* lines 573-584: the symbolic segment of one name
append_symbol(rp, tag) ==
    IF Len(tag) > 255 THEN Raise(rp, "ValueError")
    ELSE Return(rp \o <<EXTENDED_SYMBOL, <<Len(tag)>>>>
                   \o [i \in 1..Len(tag) |-> <<tag[i]>>]
                   \o (IF Len(tag) % 2 = 1 THEN <<PADDING_BYTE>> ELSE <<>>), "")

\* an element segment that keeps the low 32 bits of whatever index it is given
append_element_truncates(rp, idx) ==
    Then(int(idx), LAMBDA i : With(i.ret, LAMBDA val :
        Return(rp \o <<ELEMENT_ID("32-bit") \o PADDING_BYTE,
                       LittleEndian2(val.lo) \o LittleEndian2(val.hi % 2^16)>>, "")))
\* lines 587-599: the element segment of one index; exc = "return None" stands
\* for the `return None` of line 599, which leaves the method at once
append_element(rp, idx) ==
    Then(int(idx), LAMBDA i : With(i.ret, LAMBDA val :
        IF Le(val, Num(0, 255))
        THEN Then(pack_usint(val),
                  LAMBDA p : Return(rp \o <<ELEMENT_ID("8-bit"), p.ret>>, ""))
        ELSE IF Le(val, Num(0, 65535))
        THEN Then(pack_uint(val),
                  LAMBDA p : Return(rp \o <<ELEMENT_ID("16-bit") \o PADDING_BYTE, p.ret>>, ""))
        ELSE IF Le(val, Num(2^20 - 1, 65535))
        THEN Then(pack_dint(val),
                  LAMBDA p : Return(rp \o <<ELEMENT_ID("32-bit") \o PADDING_BYTE, p.ret>>, ""))
        ELSE Raise(rp, "return None")))

\* lines 586-599: for idx in index
RECURSIVE append_elements(_, _, _)
append_elements(rp, index, k) ==
    IF k > Len(index) THEN Return(rp, "")
    ELSE Then(append_element(rp, index[k]),
              LAMBDA r : append_elements(r.st, index, k + 1))

\* lines 560-599: the body of `for tag in tags`
append_tag(rp, tag) ==
    IF find(tag, 91) # -1
    THEN With(SliceTo(tag, Len(tag) - 1), LAMBDA t :
         With(find(t, 91), LAMBDA k :
         Then(append_symbol(rp, SliceTo(t, k)),
              LAMBDA r : append_elements(r.st, split(SliceFrom(t, k + 1), 44), 1))))
    ELSE append_symbol(rp, tag)

\* lines 559-599: for tag in tags
RECURSIVE append_tags(_, _, _)
append_tags(rp, tags, k) ==
    IF k > Len(tags) THEN Return(rp, "")
    ELSE Then(append_tag(rp, tags[k]), LAMBDA r : append_tags(r.st, tags, k + 1))

\* lines 601-606: the bytes returned for the list rp
request_path(rp, multi_requests) ==
    IF multi_requests
    THEN (IF Len(rp) \div 2 > 255 THEN Raise(rp, "ValueError")
          ELSE Return(rp, <<Len(rp) \div 2>> \o join(rp)))
    ELSE Return(rp, join(rp))

create_tag_rp(tag, multi_requests) ==
    With(append_tags(<<>>, split(encode(tag), 46), 1), LAMBDA r :
        IF r.exc = "return None" THEN [exc |-> "none", none |-> TRUE, path |-> <<>>]
        ELSE IF r.exc # "none" THEN [exc |-> r.exc, none |-> FALSE, path |-> <<>>]
        ELSE With(request_path(r.st, multi_requests), LAMBDA q :
            IF q.exc # "none" THEN [exc |-> q.exc, none |-> FALSE, path |-> <<>>]
            ELSE [exc |-> "none", none |-> FALSE, path |-> q.ret]))

(***************************************************************************)
(* Tags handed to create_tag_rp: one or two dot-separated names, with up  *)
(* to MaxIndices bracketed indices in the whole tag.                       *)
(***************************************************************************)
MaxIndices == 2
SegmentCounts == {1, 2}

\* "A" is one byte long, "é" (U+00E9) two
Names == {<<65>>, <<233>>}
\* indices on both sides of the widths the encoder tells apart:
\* 255, 256, 65535, 65536, 2^31, 2^32 - 1, 2^32, 2^36 - 1, 2^36
IndexValues ==
    {Num(0, 255), Num(0, 256), Num(0, 65535), Num(1, 0),
     Num(2^15, 0), Num(2^16 - 1, 65535), Num(2^16, 0),
     Num(2^20 - 1, 65535), Num(2^20, 0)}

\* a name with exactly k indices; no indices means no bracket
Segments(k) == {[name |-> n, index |-> x] : n \in Names, x \in [1..k -> IndexValues]}
\* tags of exactly n segments with at most m indices
RECURSIVE TagsOf(_, _)
TagsOf(n, m) ==
    IF n = 0 THEN {<<>>}
    ELSE UNION {{<<seg>> \o rest : seg \in Segments(k), rest \in TagsOf(n - 1, m - k)} :
                k \in 0..m}
Tags == UNION {TagsOf(n, MaxIndices) : n \in SegmentCounts}

\* the decimal digits of v
RECURSIVE Decimal(_)
Decimal(v) ==
    IF v.hi = 0 /\ v.lo < 10 THEN <<48 + v.lo>>
    ELSE With(DivMod10(v), LAMBDA d : Decimal(d.q) \o <<48 + d.r>>)
\* v1,v2,...
RECURSIVE IndexText(_)
IndexText(index) ==
    IF Len(index) = 1 THEN Decimal(index[1])
    ELSE Decimal(index[1]) \o <<44>> \o IndexText(Tail(index))
\* name or name[v1,v2,...]
SegmentText(seg) ==
    seg.name \o (IF seg.index = <<>> THEN <<>> ELSE <<91>> \o IndexText(seg.index) \o <<93>>)
\* the tag as the caller writes it: segments joined by dots
RECURSIVE TagText(_)
TagText(tag) ==
    IF Len(tag) = 1 THEN SegmentText(tag[1])
    ELSE SegmentText(tag[1]) \o <<46>> \o TagText(Tail(tag))

InitTag ==
    /\ inp \in {[tag |-> t] : t \in Tags}
    /\ out = [called |-> FALSE]
    /\ ObjectIdle /\ SequenceIdle /\ ThreadsIdle

\* one call of create_tag_rp, with or without multi-service framing
CreateTagRp ==
    /\ ~out.called
    /\ \E m \in BOOLEAN :
        \E r \in {create_tag_rp(TagText(inp.tag), m)} :
            out' = [called |-> TRUE, multi_requests |-> m,
                    exc |-> r.exc, none |-> r.none, path |-> r.path]
    /\ UNCHANGED <<inp, objectVars, sequenceVars, threadVars>>

NextTag == CreateTagRp

TagSpec == InitTag /\ [][NextTag]_vars

\* the call returned a request path
Accepted == out.called /\ out.exc = "none" /\ ~out.none
Indices(tag) ==
    UNION {{tag[k].index[i] : i \in 1..Len(tag[k].index)} : k \in 1..Len(tag)}

\* the encoding the documentation gives for a name and for an index
ReferenceSymbol(name) ==
    With(encode(name),
         LAMBDA b : <<145, Len(b)>> \o b \o (IF Len(b) % 2 = 1 THEN <<0>> ELSE <<>>))
ReferenceElement(v) ==
    IF Le(v, Num(0, 255)) THEN <<40, v.lo>>
    ELSE IF Le(v, Num(0, 65535)) THEN <<41, 0>> \o LittleEndian2(v.lo)
    ELSE <<42, 0>> \o LittleEndian2(v.lo) \o LittleEndian2(v.hi)
RECURSIVE ReferenceElements(_)
ReferenceElements(index) ==
    IF index = <<>> THEN <<>>
    ELSE ReferenceElement(Head(index)) \o ReferenceElements(Tail(index))
RECURSIVE ReferencePath(_)
ReferencePath(tag) ==
    IF tag = <<>> THEN <<>>
    ELSE ReferenceSymbol(Head(tag).name) \o ReferenceElements(Head(tag).index)
         \o ReferencePath(Tail(tag))

\* C14: for a tag whose indices are all within 0..0xFFFFFFFF, create_tag_rp
\* without framing returns the reference encoding of the tag.
C14_ReferenceEncoding ==
    out.called /\ ~out.multi_requests
        /\ (\A v \in Indices(inp.tag) : Le(v, Num(2^16 - 1, 65535))) =>
        Accepted /\ out.path = ReferencePath(inp.tag)

\* C15: a request path returned without framing has an even number of bytes.
C15_EvenLength ==
    Accepted /\ ~out.multi_requests => Len(out.path) % 2 = 0
\* an accepted tag with a name of odd length and 8-, 16- and 32-bit indices
C15_Witness ==
    /\ Accepted /\ ~out.multi_requests
    /\ \E k \in 1..Len(inp.tag) : Len(encode(inp.tag[k].name)) % 2 = 1
    /\ \E v \in Indices(inp.tag) : v.hi = 0 /\ v.lo > 255
    /\ \E v \in Indices(inp.tag) : v.hi > 0

\* C16: with framing, the returned bytes are the raw path bytes behind one byte
\* that holds half their number; without framing they are the raw path bytes.
C16_FramingPrefix ==
    Accepted =>
        \E raw \in {create_tag_rp(TagText(inp.tag), FALSE).path} :
            out.path = IF out.multi_requests THEN <<Len(raw) \div 2>> \o raw ELSE raw

TAG_SERVICES_REQUEST(service) == CASE service = "Multiple Service Packet" -> 10
CLASS_ID(width) == CASE width = "8-bit" -> <<32>> [] width = "16-bit" -> <<33>>
CLASS_CODE(class) ==
    CASE class = "Message Router" -> <<2>> [] class = "Connection Manager" -> <<6>>
INSTANCE_ID(width) == CASE width = "8-bit" -> <<36>> [] width = "16-bit" -> <<37>>

\* lines 644-646: for index, rp in enumerate(rp_list)
RECURSIVE append_offsets(_, _, _, _)
append_offsets(mr, rp_list, k, offset) ==
    IF k > Len(rp_list) THEN Return(mr, "")
    ELSE Then(pack_uint(Small(offset)),
              LAMBDA p : append_offsets(mr \o <<p.ret>>, rp_list, k + 1,
                                        offset + Len(rp_list[k])))

\* lines 640-641: the sequence number goes in front when one is given
insert_sequence(mr, sequence_number) ==
    IF sequence_number # None
    THEN Then(pack_uint(Small(sequence_number)), LAMBDA p : Return(<<p.ret>> \o mr, ""))
    ELSE Return(mr, "")

\* the offsets counted from the service count instead of from behind the offset table
build_multiple_service_offsets_from_count(rp_list, sequence_number) ==
    Then(pack_usint(Small(2)), LAMBDA size :
    Then(pack_uint(Small(Len(rp_list))), LAMBDA count :
    Then(insert_sequence(<<<<TAG_SERVICES_REQUEST("Multiple Service Packet")>>, size.ret,
                           CLASS_ID("8-bit"), CLASS_CODE("Message Router"),
                           INSTANCE_ID("8-bit"), <<1>>, count.ret>>, sequence_number),
         LAMBDA r :
    Then(append_offsets(r.st, rp_list, 1, Len(rp_list) * 2),
         LAMBDA q : Return(q.st \o rp_list, q.st \o rp_list)))))
\* lines 630-649
build_multiple_service(rp_list, sequence_number) ==
    Then(pack_usint(Small(2)), LAMBDA size :
    Then(pack_uint(Small(Len(rp_list))), LAMBDA count :
    Then(insert_sequence(<<<<TAG_SERVICES_REQUEST("Multiple Service Packet")>>, size.ret,
                           CLASS_ID("8-bit"), CLASS_CODE("Message Router"),
                           INSTANCE_ID("8-bit"), <<1>>, count.ret>>, sequence_number),
         LAMBDA r :
    Then(append_offsets(r.st, rp_list, 1, (Len(rp_list) * 2) + 2),
         LAMBDA q : Return(q.st \o rp_list, q.st \o rp_list)))))

\* up to MaxRequests request bodies; a body of n bytes is n times the byte n
MaxRequests == 3
Bodies == {[i \in 1..n |-> n] : n \in {0, 1, 6, 8, 10}}
RequestLists == UNION {[1..n -> Bodies] : n \in 0..MaxRequests}
\* no sequence number, or one from the ends and the middle of its range
SequenceNumbers == {None, 0, 258, SequenceLimit}

InitMultipleService ==
    /\ inp \in {[rp_list |-> l, sequence |-> q] : l \in RequestLists, q \in SequenceNumbers}
    /\ out = [called |-> FALSE]
    /\ ObjectIdle /\ SequenceIdle /\ ThreadsIdle

BuildMultipleService ==
    /\ ~out.called
    /\ \E r \in {build_multiple_service(inp.rp_list, inp.sequence)} :
        out' = [called |-> TRUE, exc |-> r.exc, mr |-> r.ret]
    /\ UNCHANGED <<inp, objectVars, sequenceVars, threadVars>>

NextMultipleService == BuildMultipleService

MultipleServiceSpec == InitMultipleService /\ [][NextMultipleService]_vars

\* the number of entries in front of the service count: the six header entries,
\* and the sequence number when there is one
Front == IF inp.sequence # None THEN 7 ELSE 6
\* the total length of the first k requests
LengthBefore(k) == Sum([j \in 1..k |-> Len(inp.rp_list[j])])

\* C18: the result holds the service count N, then N offsets with
\* offset i = 2N + 2 + the lengths of the requests before i, then the requests
\* in the given order; a sequence number only goes in front of all that.
C18_Offsets ==
    out.called =>
        \E n \in {Len(inp.rp_list)} :
            /\ out.exc = "none"
            /\ Len(out.mr) = Front + 1 + 2 * n
            /\ out.mr[Front + 1] = LittleEndian2(n)
            /\ \A i \in 1..n :
                /\ out.mr[Front + 1 + i] = LittleEndian2(2 * n + 2 + LengthBefore(i - 1))
                /\ out.mr[Front + 1 + n + i] = inp.rp_list[i]
            /\ inp.sequence # None =>
                /\ out.mr[1] = LittleEndian2(inp.sequence)
                /\ Tail(out.mr) = build_multiple_service(inp.rp_list, None).ret
\* requests of 6, 8 and 10 bytes behind a sequence number: offsets 8, 14 and 22
C18_Witness ==
    /\ out.called /\ inp.sequence = 258 /\ Len(inp.rp_list) = 3
    /\ <<Len(inp.rp_list[1]), Len(inp.rp_list[2]), Len(inp.rp_list[3])>> = <<6, 8, 10>>
    /\ SubSeq(out.mr, 9, 11) = <<<<8, 0>>, <<14, 0>>, <<22, 0>>>>

(***************************************************************************)
(* The encapsulation header of what the session object sends               *)
(***************************************************************************)
\* the commands whose messages the claim is about; forward_open, forward_close
\* and close send through send_rr_data, send_unit_data and un_register_session
HeaderCommands ==
    {"nop", "list_identity", "register_session", "unregister_session",
     "send_rr_data", "send_unit_data"}

slice(msg, from, to) == SubSeq(msg, from + 1, IF to < Len(msg) THEN to ELSE Len(msg))

\* bytes_.unpack_usint, unpack_uint, unpack_dint: unsigned 8 and 16 bits, signed 32
\* bits, little-endian; the wrong number of bytes is refused
unpack_usint(b) ==
    IF Len(b) = 1 THEN Return(<<>>, b[1]) ELSE Raise(<<>>, "struct.error")
unpack_uint(b) ==
    IF Len(b) = 2 THEN Return(<<>>, b[1] + 256 * b[2]) ELSE Raise(<<>>, "struct.error")
unpack_dint(b) ==
    IF Len(b) = 4
    THEN Return(<<>>, b[1] + 256 * b[2] + 256 * 256 * b[3]
                      + 256 * 256 * 256 * (IF b[4] < 128 THEN b[4] ELSE b[4] - 256))
    ELSE Raise(<<>>, "struct.error")

\* const.EXTEND_CODES: general status, extended status and their description
EXTEND_CODES ==
    (<<1, 256>> :> "Connection in use") @@
    (<<1, 259>> :> "Transport not supported") @@
    (<<255, 8452>> :> "Address is out of range")

\* lines 544-547
describe(general_status, extended_status) ==
    IF <<general_status, extended_status>> \in DOMAIN EXTEND_CODES
    THEN Return(<<>>, [text |-> EXTEND_CODES[<<general_status, extended_status>>],
                       codes |-> <<general_status, extended_status>>])
    ELSE Return(<<>>, [text |-> "Extended Status info not present", codes |-> <<>>])

\* the method without its answer for an unknown size: the extended status stays 0
get_extended_status_any_size(msg, start) ==
    Then(unpack_usint(slice(msg, start, start + 1)), LAMBDA general :
    Then(unpack_usint(slice(msg, start + 1, start + 2)), LAMBDA words :
    With(words.ret * 2, LAMBDA extended_status_size :
        IF extended_status_size = 2
        THEN Then(unpack_uint(slice(msg, start + 2, start + 4)),
                  LAMBDA e : describe(general.ret, e.ret))
        ELSE IF extended_status_size = 4
        THEN Then(unpack_dint(slice(msg, start + 2, start + 6)),
                  LAMBDA e : describe(general.ret, e.ret))
        ELSE describe(general.ret, 0))))
\* lines 521-547
get_extended_status(msg, start) ==
    Then(unpack_usint(slice(msg, start, start + 1)), LAMBDA general :
    Then(unpack_usint(slice(msg, start + 1, start + 2)), LAMBDA words :
    With(words.ret * 2, LAMBDA extended_status_size :
        IF extended_status_size # 0
        THEN IF extended_status_size = 1
             THEN Then(unpack_usint(slice(msg, start + 2, start + 3)),
                       LAMBDA e : describe(general.ret, e.ret))
             ELSE IF extended_status_size = 2
             THEN Then(unpack_uint(slice(msg, start + 2, start + 4)),
                       LAMBDA e : describe(general.ret, e.ret))
             ELSE IF extended_status_size = 4
             THEN Then(unpack_dint(slice(msg, start + 2, start + 6)),
                       LAMBDA e : describe(general.ret, e.ret))
             ELSE Return(<<>>, [text |-> "Extended Status Size Unknown", codes |-> <<>>])
        ELSE describe(general.ret, 0))))

\* replies: `start` bytes of other fields, the general status, the size of the
\* extended status in 16-bit words (0..MaxWords) and that many words
MaxWords == 3
GeneralStatuses == {1, 5, 255}
StatusBytes == {0, 1, 3, 4, 33}
Offsets == {0, 42}
ExtendedWords(words) ==
    IF words = 0 THEN {<<>>}
    ELSE {<<b1, b2>> \o [i \in 1..(2 * words - 2) |-> fill] :
          b1 \in StatusBytes, b2 \in StatusBytes, fill \in {0, 255}}
Replies ==
    UNION {{[msg |-> [i \in 1..start |-> 0] \o <<general, words>> \o ext, start |-> start,
             status |-> general, words |-> words, ext |-> ext] :
            start \in Offsets, general \in GeneralStatuses, ext \in ExtendedWords(words)} :
           words \in 0..MaxWords}

InitExtendedStatus ==
    /\ inp \in Replies
    /\ out = [called |-> FALSE]
    /\ ObjectIdle /\ SequenceIdle /\ ThreadsIdle

GetExtendedStatus ==
    /\ ~out.called
    /\ \E r \in {get_extended_status(inp.msg, inp.start)} :
        out' = [called |-> TRUE, exc |-> r.exc, ret |-> r.ret]
    /\ UNCHANGED <<inp, objectVars, sequenceVars, threadVars>>

NextExtendedStatus == GetExtendedStatus

ExtendedStatusSpec == InitExtendedStatus /\ [][NextExtendedStatus]_vars

\* the extended status the reply carries: none, 16 bits, or 32 bits with a sign
ExtendedStatusOf(reply) ==
    IF reply.words = 0 THEN 0
    ELSE IF reply.words = 1 THEN reply.ext[1] + 256 * reply.ext[2]
    ELSE reply.ext[1] + 256 * reply.ext[2] + 65536 * reply.ext[3]
         + 16777216 * (IF reply.ext[4] < 128 THEN reply.ext[4] ELSE reply.ext[4] - 256)
\* what the lookup table gives for the reply, or the fallback
TableOrFallback(reply) ==
    IF <<reply.status, ExtendedStatusOf(reply)>> \in DOMAIN EXTEND_CODES
    THEN [text |-> EXTEND_CODES[<<reply.status, ExtendedStatusOf(reply)>>],
          codes |-> <<reply.status, ExtendedStatusOf(reply)>>]
    ELSE [text |-> "Extended Status info not present", codes |-> <<>>]

\* C20 as stated: whatever the general status, the size and the extended
\* status, the result is the lookup-table string or the fallback.
C20_TableOrFallback ==
    out.called =>
        /\ out.exc = "none"
        /\ out.ret.text \in
               {EXTEND_CODES[k] : k \in DOMAIN EXTEND_CODES}
                   \cup {"Extended Status info not present"}

\* C20 amended: a size of 0, 1 or 2 words gives the lookup-table string for the
\* general status and the 0-, 2- or 4-byte extended status, or the fallback;
\* any other size gives "Extended Status Size Unknown".
C20_TableFallbackOrUnknownSize ==
    out.called =>
        /\ out.exc = "none"
        /\ out.ret = IF inp.words \in {0, 1, 2}
                     THEN TableOrFallback(inp)
                     ELSE [text |-> "Extended Status Size Unknown", codes |-> <<>>]
\* a reply announcing three words of extended status has been decoded
C20_Witness ==
    out.called /\ inp.words = 3 /\ out.ret.text = "Extended Status Size Unknown"

(***************************************************************************)
(* The status property                                                     *)
(***************************************************************************)
\* C21: in every state the status property returns a pair of an error group
\* and an error message.
C21_StatusIsPair == Len(status) = 2

(***************************************************************************)
(* The Forward Open request: the list forward_open joins into the message  *)
(* it sends (lines 257-299), for a session object with a given route.      *)
(***************************************************************************)
\* Python's << , & and | on non-negative ints
ShiftLeft(n, k) == n * 2^k
RECURSIVE BitAnd(_, _)
BitAnd(a, b) ==
    IF a = 0 \/ b = 0 THEN 0
    ELSE (a % 2) * (b % 2) + 2 * BitAnd(a \div 2, b \div 2)
RECURSIVE BitOr(_, _)
BitOr(a, b) ==
    IF a = 0 THEN b ELSE IF b = 0 THEN a
    ELSE (IF a % 2 = 1 \/ b % 2 = 1 THEN 1 ELSE 0) + 2 * BitOr(a \div 2, b \div 2)

\* bytes_.pack_udint: unsigned 32 bits
pack_udint(v) ==
    IF v.hi < 2^16
    THEN Return(<<>>, LittleEndian2(v.lo) \o LittleEndian2(v.hi))
    ELSE Raise(<<>>, "struct.error")

\* const.FORWARD_OPEN, LARGE_FORWARD_OPEN, CONNECTION_MANAGER_INSTANCE, PRIORITY,
\* TIMEOUT_TICKS, TIMEOUT_MULTIPLIER, TRANSPORT_CLASS, CONNECTION_SIZE
FORWARD_OPEN == <<84>>
LARGE_FORWARD_OPEN == <<91>>
CONNECTION_MANAGER_INSTANCE(request) == CASE request = "Open Request" -> <<1>>
PRIORITY == <<10>>
TIMEOUT_TICKS == <<14>>
TIMEOUT_MULTIPLIER == <<1>>
TRANSPORT_CLASS == <<163>>
CONNECTION_SIZE(route) ==
    CASE route = "Backplane" -> <<3>> [] route = "Direct Network" -> <<2>>

\* the entries of self.attribs that go into the request (lines 73-79)
attribs(backplane, cpu_slot, extended) ==
    [cid |-> <<39, 4, 25, 113>>, csn |-> <<39, 4>>, vid |-> <<9, 16>>,
     vsn |-> <<9, 16, 25, 113>>, backplane |-> backplane, cpu_slot |-> cpu_slot,
     extended_forward_open |-> extended]

\* line 257
init_net_params ==
    BitOr(BitOr(BitOr(ShiftLeft(1, 9), ShiftLeft(0, 10)), ShiftLeft(2, 13)), ShiftLeft(0, 15))

\* lines 258-263
net_params(extended) ==
    IF extended
    THEN pack_udint(Num(init_net_params, BitAnd(4002, 65535)))
    ELSE pack_uint(Small(BitOr(BitAnd(500, 511), init_net_params)))

\* lines 265-270
connection_params(direct) ==
    IF direct
    THEN <<CONNECTION_SIZE("Direct Network"), CLASS_ID("8-bit"), CLASS_CODE("Message Router")>>
    ELSE <<CONNECTION_SIZE("Backplane")>>

\* lines 272-299: the list forward_open_msg
forward_open_request(direct, a) ==
    Then(net_params(a.extended_forward_open), LAMBDA net :
    Then(pack_usint(Small(a.backplane)), LAMBDA backplane :
    Then(pack_usint(Small(a.cpu_slot)), LAMBDA cpu_slot :
    Return(<<>>,
        <<IF ~a.extended_forward_open THEN FORWARD_OPEN ELSE LARGE_FORWARD_OPEN,
          <<2>>, CLASS_ID("8-bit"), CLASS_CODE("Connection Manager"), INSTANCE_ID("8-bit"),
          CONNECTION_MANAGER_INSTANCE("Open Request"), PRIORITY, TIMEOUT_TICKS,
          <<0, 0, 0, 0>>, a.cid, a.csn, a.vid, a.vsn, TIMEOUT_MULTIPLIER,
          <<0, 0, 0>>, <<1, 64, 32, 0>>, net.ret, <<1, 64, 32, 0>>, net.ret,
          TRANSPORT_CLASS>>
        \o connection_params(direct)
        \o <<backplane.ret, cpu_slot.ret, <<32, 2>>, INSTANCE_ID("8-bit"), <<1>>>>))))

\* routes: backplane 0..MaxBackplane, cpu slot 0..MaxSlot, direct or not,
\* standard or Large Forward Open
MaxBackplane == 4
MaxSlot == 4
Routes ==
    {[direct |-> d, attribs |-> attribs(b, c, e)] :
     d \in BOOLEAN, b \in 0..MaxBackplane, c \in 0..MaxSlot, e \in BOOLEAN}

InitForwardOpenRequest ==
    /\ inp \in Routes
    /\ out = [called |-> FALSE]
    /\ ObjectIdle /\ SequenceIdle /\ ThreadsIdle

BuildForwardOpenRequest ==
    /\ ~out.called
    /\ \E r \in {forward_open_request(inp.direct, inp.attribs)} :
        out' = [called |-> TRUE, exc |-> r.exc, msg |-> r.ret]
    /\ UNCHANGED <<inp, objectVars, sequenceVars, threadVars>>

NextForwardOpenRequest == BuildForwardOpenRequest

ForwardOpenRequestSpec == InitForwardOpenRequest /\ [][NextForwardOpenRequest]_vars

\* the connection path of the request: the word-length byte and what follows it,
\* that is everything behind the transport class, entry 20 of the list
ConnectionPathSize == join(SubSeq(out.msg, 21, Len(out.msg)))[1]
ConnectionPath == Tail(join(SubSeq(out.msg, 21, Len(out.msg))))
\* 0x20 0x02 0x24 0x01, the path to instance 1 of the Connection Manager
Trailer == <<32, 2, 36, 1>>

\* C22: for a direct connection the connection path is the direct-route bytes
\* (0x20 and the Message Router class) followed by the trailer 0x20 0x02 0x24 0x01,
\* with no backplane or cpu slot byte; for a backplane-routed connection the
\* backplane and cpu slot values stand in front of the trailer; in both cases the
\* word-length byte is half the number of path bytes.
C22_ConnectionPath ==
    out.called =>
        /\ out.exc = "none"
        /\ inp.direct => ConnectionPath = <<32, 2>> \o Trailer
        /\ ~inp.direct =>
               /\ Len(ConnectionPath) >= 2 + Len(Trailer)
               /\ SubSeq(ConnectionPath, Len(ConnectionPath) - 3, Len(ConnectionPath)) = Trailer
               /\ \E i \in 1..(Len(ConnectionPath) - 5) :
                      /\ ConnectionPath[i] = inp.attribs.backplane
                      /\ \E j \in (i + 1)..(Len(ConnectionPath) - 4) :
                             ConnectionPath[j] = inp.attribs.cpu_slot
        /\ 2 * ConnectionPathSize = Len(ConnectionPath)

(***************************************************************************)
(* register_session with and without a handle                              *)
(***************************************************************************)
\* the events of the last call of the given kind
EventsOfKind(kind) == {i \in 1..Len(last.ev) : last.ev[i].kind = kind}

\* C23: register_session() called while a handle is held sends nothing,
\* receives nothing, changes no session state and returns the handle it holds;
\* called without a handle it sends nothing but RegisterSession, at most once,
\* receives at most once, and a call that returns has sent exactly one
\* RegisterSession message and received exactly one reply.
C23_RegisterSessionFrame ==
    last.op = "register_session" =>
        IF last.pre.session \notin {0, None}
        THEN /\ last.ev = <<>>
             /\ last.exc = "none"
             /\ last.ret = last.pre.session
             /\ session = last.pre.session
             /\ registered = last.pre.registered
             /\ connection_opened = last.pre.connected
             /\ target_is_connected = last.pre.cip
             /\ target_cid = last.pre.target_cid
        ELSE /\ \A i \in EventsOfKind("send") : IsSend(last.ev[i], "register_session")
             /\ Cardinality(EventsOfKind("send")) <= 1
             /\ Cardinality(EventsOfKind("receive")) <= 1
             /\ \A i \in EventsOfKind("receive") :
                    i > 1 /\ last.ev[i - 1].kind = "send" /\ last.ev[i - 1].result = "ok"
             /\ last.exc = "none" =>
                    /\ Cardinality(EventsOfKind("send")) = 1
                    /\ Cardinality(EventsOfKind("receive")) = 1

\* register_session was called while a handle was held
C23_Witness ==
    /\ last.op = "register_session"
    /\ last.pre.session \notin {0, None}
    /\ last.pre.connected
    /\ last.ret = last.pre.session

(***************************************************************************)
(* get_module_info without a CIP connection                                *)
(***************************************************************************)
\* the call sent the Identity request
IdentitySent ==
    \E i \in EventsOfKind("send") : last.ev[i].message.data.name = "get_module_info"
\* the call began with a Forward Open whose reply was received and accepted
ForwardOpenSucceeded ==
    /\ Len(last.ev) >= 3
    /\ last.ev[1].kind = "send" /\ last.ev[1].result = "ok"
    /\ last.ev[1].message.data.name = "forward_open"
    /\ last.ev[2].kind = "receive" /\ last.ev[2].result = "ok"
    /\ last.ev[3].kind = "check" /\ last.ev[3].result = "True"

\* C24: get_module_info called while not CIP-connected performs forward_open
\* before anything else; when that succeeds the session is CIP-connected after
\* the call, when it fails no Identity request is sent and the call raises
\* DataError; and no failure of get_module_info surfaces as anything but
\* DataError.
C24_GetModuleInfoOpensFirst ==
    last.op = "get_module_info" =>
        /\ last.exc \in {"none", "DataError"}
        /\ ~last.pre.cip =>
               /\ \A i \in EventsOfKind("send") :
                      i = 1 => last.ev[i].message.data.name = "forward_open"
               /\ ForwardOpenSucceeded => target_is_connected
               /\ ~ForwardOpenSucceeded =>
                      /\ ~IdentitySent
                      /\ last.exc = "DataError"
                      /\ ~target_is_connected
               /\ last.exc = "none" => ForwardOpenSucceeded /\ IdentitySent

\* get_module_info opened the CIP connection and then lost the Identity
\* exchange to a transport fault
C24_Witness ==
    /\ last.op = "get_module_info"
    /\ ~last.pre.cip
    /\ ForwardOpenSucceeded
    /\ IdentitySent
    /\ \E e \in Events : e.kind = "receive" /\ e.result = "fail"
    /\ last.exc = "DataError"
    /\ target_is_connected

====
